---- MODULE Spec2Model ----
(***************************************************************************)
(* Model of montarRanking.py: parse_candidates_data (record extraction),   *)
(* build_ranking (sorting), display_ranking (console preview and output    *)
(* file) and main (the orchestration of the three).                        *)
(*                                                                         *)
(* Text is a sequence of one-character strings.  The two words the code    *)
(* looks for literally, the header word of line 75/106 and the section     *)
(* marker of line 107, are each one symbol ("OPCAO", "SUBAREA:"), and so   *)
(* is the stem of a file name ("ranking", "a"): none of them contains a    *)
(* character any of the patterns or replacements below looks at.           *)
(* A decimal number is held as an integer number of 10^-FracDigits units.  *)
(***************************************************************************)
EXTENDS Integers, Sequences, FiniteSets, TLC

\* Number of fractional digits a decimal keeps in the model.
FracDigits == 2

\* Longest document, in chunks, that Init draws.
MaxChunks == 2

Scale == 10 ^ FracDigits

(***************************************************************************)
(* Character classes of Python's re module and of str.strip                *)
(***************************************************************************)
DigitChars == <<"0", "1", "2", "3", "4", "5", "6", "7", "8", "9">>

\* \d
Digit == {DigitChars[i] : i \in 1..10}

\* \s
Space == {" ", "\n"}

\* \w (the header word is made of letters, so it is word characters too)
Word == Digit \cup {"a", "b", "x", "T", "X", "_", "OPCAO"}

\* [\w\s.\-\']
NameClass == Word \cup Space \cup {".", "-", "'"}

Min(S) == CHOOSE x \in S : \A y \in S : x <= y

Max(S) == CHOOSE x \in S : \A y \in S : x >= y

\* s[i], or "" outside the text
At(s, i) == IF i >= 1 /\ i <= Len(s) THEN s[i] ELSE ""

\* the text from position a up to, not including, position b
Sub(s, a, b) == SubSeq(s, a, b - 1)

\* the position after the longest run of characters of class C that starts at i
SpanIn(s, i, C) ==
    LET stops == {j \in i..Len(s) : s[j] \notin C}
    IN  IF stops = {} THEN Max({i, Len(s) + 1}) ELSE Min(stops)

(***************************************************************************)
(* str methods                                                             *)
(***************************************************************************)
\* str.strip()
Strip(s) ==
    LET keep == {i \in 1..Len(s) : s[i] \notin Space}
    IN  IF keep = {} THEN <<>> ELSE SubSeq(s, Min(keep), Max(keep))

\* str.split(sep) for a one-symbol separator
RECURSIVE Split(_, _)
Split(s, sep) ==
    LET hits == {i \in 1..Len(s) : s[i] = sep}
    IN  IF hits = {} THEN <<s>>
        ELSE <<SubSeq(s, 1, Min(hits) - 1)>>
                 \o Split(SubSeq(s, Min(hits) + 1, Len(s)), sep)

\* str.replace(old, new): every non-overlapping occurrence, left to right
RECURSIVE Replace(_, _, _)
Replace(s, old, new) ==
    LET n == Len(old)
        hits == {i \in 1..(Len(s) - n + 1) : SubSeq(s, i, i + n - 1) = old}
    IN  IF hits = {} THEN s
        ELSE SubSeq(s, 1, Min(hits) - 1) \o new
                 \o Replace(SubSeq(s, Min(hits) + n, Len(s)), old, new)

\* str.endswith(suffix)
EndsWith(s, suffix) ==
    /\ Len(s) >= Len(suffix)
    /\ SubSeq(s, Len(s) - Len(suffix) + 1, Len(s)) = suffix

LowerChar(c) ==
    CASE c = "X" -> "x" [] c = "L" -> "l" [] c = "S" -> "s" [] c = "C" -> "c"
      [] c = "V" -> "v" [] c = "T" -> "t" [] OTHER -> c

\* str.lower()
Lower(s) == [i \in 1..Len(s) |-> LowerChar(s[i])]

\* sep.join(parts)
RECURSIVE Join(_, _)
Join(parts, sep) ==
    IF parts = <<>> THEN <<>>
    ELSE IF Len(parts) = 1 THEN parts[1]
    ELSE parts[1] \o sep \o Join(Tail(parts), sep)

(***************************************************************************)
(* float(), int() and str() of the numbers                                 *)
(***************************************************************************)
DigitVal(c) == CHOOSE n \in 0..9 : DigitChars[n + 1] = c

RECURSIVE DigitsToNat(_)
DigitsToNat(ds) ==
    IF ds = <<>> THEN 0
    ELSE 10 * DigitsToNat(SubSeq(ds, 1, Len(ds) - 1)) + DigitVal(ds[Len(ds)])

RECURSIVE NatToDigits(_)
NatToDigits(n) ==
    IF n < 10 THEN <<DigitChars[n + 1]>>
    ELSE NatToDigits(n \div 10) \o <<DigitChars[(n % 10) + 1]>>

\* the fractional digits fs as a number of 10^-FracDigits units
FracToScaled(fs) ==
    DigitsToNat([i \in 1..FracDigits |-> IF i <= Len(fs) THEN fs[i] ELSE "0"])

\* float(s): surrounding blanks, a sign, digits with an optional point.
\* ok = FALSE stands for ValueError.
ParseFloat(s0) ==
    LET s == Strip(s0)
        signed == At(s, 1) \in {"-", "+"}
        body == IF signed THEN Tail(s) ELSE s
        a == SpanIn(body, 1, Digit)
        hasDot == At(body, a) = "."
        b == IF hasDot THEN SpanIn(body, a + 1, Digit) ELSE a
        intDs == Sub(body, 1, a)
        fracDs == IF hasDot THEN Sub(body, a + 1, b) ELSE <<>>
        ok == b = Len(body) + 1 /\ Len(intDs) + Len(fracDs) > 0
        mag == DigitsToNat(intDs) * Scale + FracToScaled(fracDs)
    IN  IF ok THEN [ok |-> TRUE, val |-> IF At(s, 1) = "-" THEN 0 - mag ELSE mag]
        ELSE [ok |-> FALSE, val |-> 0]

\* int(s): surrounding blanks, a sign, digits.  ok = FALSE stands for ValueError.
ParseInt(s0) ==
    LET s == Strip(s0)
        signed == At(s, 1) \in {"-", "+"}
        body == IF signed THEN Tail(s) ELSE s
        a == SpanIn(body, 1, Digit)
        ok == a = Len(body) + 1 /\ Len(body) > 0
        mag == DigitsToNat(body)
    IN  IF ok THEN [ok |-> TRUE, val |-> IF At(s, 1) = "-" THEN 0 - mag ELSE mag]
        ELSE [ok |-> FALSE, val |-> 0]

RECURSIVE DropTrailingZeros(_)
DropTrailingZeros(ds) ==
    IF Len(ds) > 1 /\ ds[Len(ds)] = "0"
    THEN DropTrailingZeros(SubSeq(ds, 1, Len(ds) - 1))
    ELSE ds

\* the digits of n, left-padded with zeros to width w
PadDigits(n, w) ==
    LET ds == NatToDigits(n)
    IN  [i \in 1..(w - Len(ds)) |-> "0"] \o ds

\* str(x) of a float: sign, integer digits, point, at least one fractional digit
FloatStr(v) ==
    LET mag == IF v < 0 THEN 0 - v ELSE v
    IN  (IF v < 0 THEN <<"-">> ELSE <<>>)
            \o NatToDigits(mag \div Scale) \o <<".">>
            \o DropTrailingZeros(PadDigits(mag % Scale, FracDigits))

\* str(n) of an int
IntStr(n) ==
    IF n < 0 THEN <<"-">> \o NatToDigits(0 - n) ELSE NatToDigits(n)

(***************************************************************************)
(* parse_candidates_data: header, clean-up and split (lines 75 to 92)      *)
(***************************************************************************)
\* the value returned where something is missing
Unknown == <<"Unknown">>

\* the groups of title_pattern, OPCAO (\d+): (.+), matched at position i, or <<>>
TitleMatchAt(s, i) ==
    LET a == SpanIn(s, i + 2, Digit)
        ends == {j \in (a + 2)..Len(s) : s[j] = "\n"}
        e == IF ends = {} THEN Len(s) + 1 ELSE Min(ends)
    IN  IF /\ At(s, i) = "OPCAO" /\ At(s, i + 1) = " " /\ a > i + 2
           /\ At(s, a) = ":" /\ At(s, a + 1) = " " /\ e > a + 2
        THEN <<Sub(s, i + 2, a), Sub(s, a + 2, e)>>
        ELSE <<>>

\* re.search(title_pattern, content): the leftmost match, or <<>>
TitleSearch(s) ==
    LET starts == {i \in 1..Len(s) : TitleMatchAt(s, i) # <<>>}
    IN  IF starts = {} THEN <<>> ELSE TitleMatchAt(s, Min(starts))

\* the end of a match of (\d+)\.\s+(\d+) that starts at i, as <<a, w, b>>:
\* the point is at a, the second number is [w, b).  <<0, 0, 0>> when none.
DecimalGapAt(s, i) ==
    LET a == SpanIn(s, i, Digit)
        w == SpanIn(s, a + 1, Space)
        b == SpanIn(s, w, Digit)
    IN  IF a > i /\ At(s, a) = "." /\ w > a + 1 /\ b > w
        THEN <<a, w, b>> ELSE <<0, 0, 0>>

\* re.sub(r'(\d+)\.\s+(\d+)', r'\1.\2', content)
RECURSIVE RejoinDecimals(_)
RejoinDecimals(s) ==
    LET starts == {i \in 1..Len(s) : DecimalGapAt(s, i)[1] > 0}
    IN  IF starts = {} THEN s
        ELSE LET m == DecimalGapAt(s, Min(starts))
             IN  SubSeq(s, 1, m[1]) \o Sub(s, m[2], m[3])
                     \o RejoinDecimals(SubSeq(s, m[3], Len(s)))

\* cleaned_content of line 89
CleanContent(content) ==
    Replace(Replace(RejoinDecimals(content), <<"\n">>, <<" ">>),
            <<" ", " ">>, <<" ">>)

(***************************************************************************)
(* The primary pattern of line 117                                         *)
(***************************************************************************)
\* ,\s*([\w\s.\-\']+) with the comma at c and a comma after it: the group as
\* <<first, end>>.  \s* gives one blank back when the field is all blanks.
NameAfterComma(s, c) ==
    LET w == SpanIn(s, c + 1, Space)
        n == SpanIn(s, c + 1, NameClass)
    IN  IF At(s, c) # "," \/ n = c + 1 \/ At(s, n) # "," THEN <<0, 0>>
        ELSE IF w < n THEN <<w, n>> ELSE <<n - 1, n>>

\* ,\s*(\d+\.\d+) with the comma at c: the group as <<first, end>>
DecimalAfterComma(s, c) ==
    LET w == SpanIn(s, c + 1, Space)
        a == SpanIn(s, w, Digit)
        b == SpanIn(s, a + 1, Digit)
    IN  IF At(s, c) = "," /\ a > w /\ At(s, a) = "." /\ b > a + 1
        THEN <<w, b>> ELSE <<0, 0>>

\* ,\s*(\d+) with the comma at c: the group as <<first, end>>
IntAfterComma(s, c) ==
    LET w == SpanIn(s, c + 1, Space)
        a == SpanIn(s, w, Digit)
    IN  IF At(s, c) = "," /\ a > w THEN <<w, a>> ELSE <<0, 0>>

\* the seven groups of the pattern matched at position i, or <<>>
PatternMatchAt(s, i) ==
    LET d == SpanIn(s, i, Digit)
        g2 == NameAfterComma(s, d)
        g3 == DecimalAfterComma(s, g2[2])
        g4 == IntAfterComma(s, g3[2])
        g5 == DecimalAfterComma(s, g4[2])
        g6 == IntAfterComma(s, g5[2])
        g7 == DecimalAfterComma(s, g6[2])
    IN  IF d > i /\ g7[1] > 0
        THEN <<Sub(s, i, d), Sub(s, g2[1], g2[2]), Sub(s, g3[1], g3[2]),
               Sub(s, g4[1], g4[2]), Sub(s, g5[1], g5[2]), Sub(s, g6[1], g6[2]),
               Sub(s, g7[1], g7[2])>>
        ELSE <<>>

\* the leftmost of the matches found, found[i] being the match at position i
Leftmost(found) ==
    IF \A i \in 1..Len(found) : found[i] = <<>> THEN <<>>
    ELSE found[Min({i \in 1..Len(found) : found[i] # <<>>})]

\* re.search(pattern, chunk).groups(): the leftmost match, or <<>>
PatternSearch(s) == Leftmost([i \in 1..Len(s) |-> PatternMatchAt(s, i)])

(***************************************************************************)
(* The chunk loop (lines 95 to 147)                                        *)
(***************************************************************************)
Dropped == [kind |-> "dropped", entry |-> <<>>]

\* lines 133 to 147: the tuple appended to entries when every number was
\* coerced, nothing when one raised ValueError
ManualEntry(registration, name, p1_score, p1_correct, p2_score, p2_correct, final_score) ==
    IF /\ p1_score.ok /\ p1_correct.ok /\ p2_score.ok /\ p2_correct.ok
       /\ final_score.ok
    THEN [kind |-> "fallback",
          entry |-> <<registration, name, FloatStr(p1_score.val),
                      IntStr(p1_correct.val), FloatStr(p2_score.val),
                      IntStr(p2_correct.val), FloatStr(final_score.val)>>]
    ELSE Dropped

\* str.replace(' ', '') of line 131
Unspaced(part) == Replace(part, <<" ">>, <<>>)

\* lines 127 to 147 on the stripped parts
ManualParts(parts) ==
    IF Len(parts) >= 7
    THEN ManualEntry(parts[1], parts[2],
                     ParseFloat(Unspaced(parts[3])), ParseInt(Unspaced(parts[4])),
                     ParseFloat(Unspaced(parts[5])), ParseInt(Unspaced(parts[6])),
                     ParseFloat(Unspaced(parts[7])))
    ELSE Dropped

StripAll(parts) == [i \in 1..Len(parts) |-> Strip(parts[i])]

\* the manual parsing of lines 126 to 147: kind "fallback" with the tuple
\* appended to entries, or kind "dropped"
ManualParse(chunk) == ManualParts(StripAll(Split(chunk, ",")))

\* lines 120 to 147, groups being what the primary pattern found
PrimaryOrManual(chunk, groups) ==
    IF groups # <<>> THEN [kind |-> "primary", entry |-> groups]
    ELSE ManualParse(chunk)

\* lines 117 to 147 on one chunk: the primary pattern, then the manual parsing
ParseChunk(chunk) == PrimaryOrManual(chunk, PatternSearch(chunk))

\* the state of the loop before its first iteration (lines 95, 96); log holds,
\* for every chunk seen, the text that was parsed and what became of it
LoopStart == [started |-> FALSE, entries |-> <<>>, log |-> <<>>]

Logged(st, chunk, kind, entry, started) ==
    [started |-> started,
     entries |-> IF entry = <<>> THEN st.entries ELSE Append(st.entries, entry),
     log |-> Append(st.log, [chunk |-> chunk, kind |-> kind, entry |-> entry,
                             startedBefore |-> st.started])]

LoggedResult(st, text, res) == Logged(st, text, res.kind, res.entry, TRUE)

\* lines 116 to 147 on the text of a chunk that is candidate data
ParseAndLog(st, text) == LoggedResult(st, text, ParseChunk(text))

\* one iteration of the loop of line 98, the header test made on every chunk
\* whether or not candidate data has started
ChunkStep_HeaderAnywhere(st, raw) ==
    LET chunk == Strip(raw)
        header == \E i \in 1..Len(chunk) : chunk[i] = "OPCAO"
        parts == Split(chunk, "SUBAREA:")
    IN  IF chunk = <<>> THEN Logged(st, chunk, "empty", <<>>, st.started)
        ELSE IF header /\ Len(parts) <= 1
             THEN Logged(st, chunk, "skipped", <<>>, st.started)
        ELSE ParseAndLog(st, IF header THEN Strip(parts[2]) ELSE chunk)

\* one iteration of the loop of line 98
ChunkStep(st, raw) ==
    LET chunk == Strip(raw)
        header == ~st.started /\ \E i \in 1..Len(chunk) : chunk[i] = "OPCAO"
        parts == Split(chunk, "SUBAREA:")
    IN  IF chunk = <<>> THEN Logged(st, chunk, "empty", <<>>, st.started)
        ELSE IF header /\ Len(parts) <= 1
             THEN Logged(st, chunk, "skipped", <<>>, st.started)
        ELSE ParseAndLog(st, IF header THEN Strip(parts[2]) ELSE chunk)

\* the rest of the loop after an iteration, broken off where neither parser
\* accepted the chunk
RECURSIVE ChunkLoop_StopAtFailure(_, _)
StopOrGoOn(next, rest) ==
    IF next.log[Len(next.log)].kind = "dropped" THEN next
    ELSE ChunkLoop_StopAtFailure(next, rest)

\* the loop of line 98, broken off at the first chunk neither parser accepts
ChunkLoop_StopAtFailure(st, chunks) ==
    IF chunks = <<>> THEN st
    ELSE StopOrGoOn(ChunkStep(st, Head(chunks)), Tail(chunks))

\* the loop of line 98 over candidate_chunks
RECURSIVE ChunkLoop(_, _)
ChunkLoop(st, chunks) ==
    IF chunks = <<>> THEN st
    ELSE ChunkLoop(ChunkStep(st, Head(chunks)), Tail(chunks))

(***************************************************************************)
(* From entries to candidates (lines 152 to 188)                           *)
(***************************************************************************)
\* lines 164 to 181: the candidate of the coerced fields; ok = FALSE is the
\* ValueError of line 183
Candidate(registration, name, p1_score, p1_correct, p2_score, p2_correct, final_score) ==
    [ok |-> /\ p1_score.ok /\ p1_correct.ok /\ p2_score.ok /\ p2_correct.ok
            /\ final_score.ok,
     candidate |-> [registration |-> registration,
                    name |-> name,
                    p1_score |-> p1_score.val,
                    p1_correct |-> p1_correct.val,
                    p2_score |-> p2_score.val,
                    p2_correct |-> p2_correct.val,
                    final_score |-> final_score.val]]

\* lines 164 to 181 with the two counts taken from each other's group
ProcessEntry_Swapped(entry) ==
    Candidate(Strip(entry[1]), Strip(entry[2]), ParseFloat(entry[3]),
              ParseInt(entry[6]), ParseFloat(entry[5]), ParseInt(entry[4]),
              ParseFloat(entry[7]))

\* lines 164 to 181 on one entry
ProcessEntry(entry) ==
    Candidate(Strip(entry[1]), Strip(entry[2]), ParseFloat(entry[3]),
              ParseInt(entry[4]), ParseFloat(entry[5]), ParseInt(entry[6]),
              ParseFloat(entry[7]))

\* the loop of line 156: what each entry became
ProcessAll(entries) == [i \in 1..Len(entries) |-> ProcessEntry(entries[i])]

\* the indices, from i on, of the entries that became candidates
RECURSIVE KeptFrom(_, _)
KeptFrom(results, i) ==
    IF i > Len(results) THEN <<>>
    ELSE (IF results[i].ok THEN <<i>> ELSE <<>>) \o KeptFrom(results, i + 1)

\* the candidates in the order of their entries, and the entries they are of
Kept(results, kept) ==
    [candidates |-> [k \in 1..Len(kept) |-> results[kept[k]].candidate],
     processed |-> kept]

KeptOf(results) == Kept(results, KeptFrom(results, 1))

\* the loop of line 156: candidates, and the indices of their entries
ProcessEntries(entries) == KeptOf(ProcessAll(entries))

\* the records parse_candidates_data extracts from a list of chunks
ExtractRecords(chunks) ==
    ProcessEntries(ChunkLoop(LoopStart, chunks).entries).candidates

(***************************************************************************)
(* parse_candidates_data as a whole                                        *)
(***************************************************************************)
\* the return of line 192, after the except clause of line 190
ParseFailed(raised) ==
    [option_number |-> Unknown, option_title |-> Unknown, candidates |-> <<>>,
     chunks |-> <<>>, log |-> <<>>, processed |-> <<>>, raised |-> raised]

\* the return of line 188
ParseReturn(title_match, candidate_chunks, loop, result) ==
    [option_number |-> IF title_match # <<>> THEN title_match[1] ELSE Unknown,
     option_title |-> IF title_match # <<>> THEN title_match[2] ELSE Unknown,
     candidates |-> result.candidates,
     chunks |-> candidate_chunks,
     log |-> loop.log,
     processed |-> result.processed,
     raised |-> FALSE]

\* lines 152 to 188
ParseEntries(title_match, candidate_chunks, loop) ==
    ParseReturn(title_match, candidate_chunks, loop, ProcessEntries(loop.entries))

\* lines 94 to 188
ParseChunks(title_match, candidate_chunks) ==
    ParseEntries(title_match, candidate_chunks,
                 ChunkLoop(LoopStart, candidate_chunks))

\* lines 75 to 188: the body of the try
ParseBody(text) == ParseChunks(TitleSearch(text), Split(CleanContent(text), "/"))

\* parse_candidates_data with the error of open() leaving the function
ParseCandidatesData_Raises(ok, text) ==
    IF ok THEN ParseBody(text) ELSE ParseFailed(TRUE)

\* parse_candidates_data(filename); ok is whether open() and read() of line 69
\* succeed, text what they return
ParseCandidatesData(ok, text) ==
    IF ok THEN ParseBody(text) ELSE ParseFailed(FALSE)

(***************************************************************************)
(* build_ranking (lines 194 to 211)                                        *)
(***************************************************************************)
Reverse(seq) == [i \in 1..Len(seq) |-> seq[Len(seq) + 1 - i]]

\* x put into the ascending list after every element whose key is not greater
InsertByFinalScore(sorted, x) ==
    LET k == Cardinality({i \in 1..Len(sorted) :
                             sorted[i].final_score <= x.final_score})
    IN  SubSeq(sorted, 1, k) \o <<x>> \o SubSeq(sorted, k + 1, Len(sorted))

\* a stable ascending sort on final_score
RECURSIVE StableSortAsc(_)
StableSortAsc(seq) ==
    IF seq = <<>> THEN <<>>
    ELSE InsertByFinalScore(StableSortAsc(SubSeq(seq, 1, Len(seq) - 1)),
                            seq[Len(seq)])

\* sorting ascending and reversing the result
Sorted_ReverseAfter(seq, reverse) ==
    IF reverse THEN Reverse(StableSortAsc(seq)) ELSE StableSortAsc(seq)

\* sorted(seq, key=itemgetter('final_score'), reverse=reverse): with reverse,
\* the list is reversed, sorted stably and reversed again
Sorted(seq, reverse) ==
    IF reverse THEN Reverse(StableSortAsc(Reverse(seq))) ELSE StableSortAsc(seq)

\* build_ranking(candidates)
BuildRanking(cands) == Sorted(cands, TRUE)

(***************************************************************************)
(* display_ranking (lines 295 to 440)                                      *)
(***************************************************************************)
\* no file: output_file None or empty, or nothing written
NoFile == <<>>

Xlsx == <<"x", "l", "s", "x">>

Csv == <<"c", "s", "v">>

Txt == <<"t", "x", "t">>

DotXlsx == <<".">> \o Xlsx

DotCsv == <<".">> \o Csv

DotTxt == <<".">> \o Txt

\* the extension of the branch output_format selects (lines 363, 386, 408)
ExtensionOf(output_format) ==
    IF Lower(output_format) = Xlsx THEN DotXlsx
    ELSE IF Lower(output_format) = Csv THEN DotCsv
    ELSE DotTxt

\* the two extensions each branch replaces, in the order it replaces them
ReplacedBy(ext) ==
    IF ext = DotXlsx THEN <<DotTxt, DotCsv>>
    ELSE IF ext = DotCsv THEN <<DotTxt, DotXlsx>>
    ELSE <<DotCsv, DotXlsx>>

\* lines 364 to 367, 387 to 390, 409 to 412: the name the file is written under
TargetFile(output_format, output_file) ==
    LET ext == ExtensionOf(output_format)
        old == ReplacedBy(ext)
        replaced == Replace(Replace(output_file, old[1], ext), old[2], ext)
    IN  IF EndsWith(Lower(output_file), ext) THEN output_file
        ELSE IF EndsWith(Lower(replaced), ext) THEN replaced
        ELSE replaced \o ext

\* tabulate(df, headers='keys', tablefmt="grid", showindex=False) as its lines:
\* a border, the header, its rule, then every row followed by a border
RECURSIVE GridRows(_, _)
GridRows(cands, k) ==
    IF k > Len(cands) THEN <<>>
    ELSE <<[kind |-> "row", rank |-> k], [kind |-> "border", rank |-> 0]>>
             \o GridRows(cands, k + 1)

TableLines(cands) ==
    <<[kind |-> "border", rank |-> 0], [kind |-> "header", rank |-> 0],
      [kind |-> "rule", rank |-> 0]>> \o GridRows(cands, 1)

\* the number of table lines line 356 prints
PreviewLines == 22

\* the number of rows lines 355 and 357 speak of
PreviewRows == 20

\* table.split("\n")[:22] of line 356
Preview(cands) ==
    LET table == TableLines(cands)
    IN  SubSeq(table, 1, IF Len(table) < PreviewLines THEN Len(table)
                         ELSE PreviewLines)

\* the number line 357 prints
MoreRows(cands) ==
    IF Len(cands) > PreviewRows THEN Len(cands) - PreviewRows ELSE 0

\* what display_ranking prints, shows and writes; failed is whether the write
\* was attempted and raised, raised whether the error left the function
Displayed(console, cands, written, failed, raised) ==
    [console |-> console,
     shown |-> IF cands = <<>> THEN <<>> ELSE Preview(cands),
     more |-> IF cands = <<>> THEN 0 ELSE MoreRows(cands),
     written |-> written, failed |-> failed, raised |-> raised]

\* display_ranking with the except clause of line 439 missing
DisplayRanking_Raises(cands, format, file, fails) ==
    IF cands = <<>>
    THEN Displayed(<<"no_candidates">>, cands, NoFile, FALSE, FALSE)
    ELSE IF file = NoFile
    THEN Displayed(<<"table", "more_rows">>, cands, NoFile, FALSE, FALSE)
    ELSE IF fails
    THEN Displayed(<<"table", "more_rows", "saving">>, cands, NoFile, TRUE, TRUE)
    ELSE Displayed(<<"table", "more_rows", "saving", "saved">>, cands,
                   TargetFile(format, file), FALSE, FALSE)

\* display_ranking(option_number, option_title, candidates, output_format,
\* output_file); fails is whether writing the file raises.  console is what
\* is printed, in order; written the name of the file written.
DisplayRanking(cands, format, file, fails) ==
    IF cands = <<>>
    THEN Displayed(<<"no_candidates">>, cands, NoFile, FALSE, FALSE)
    ELSE IF file = NoFile
    THEN Displayed(<<"table", "more_rows">>, cands, NoFile, FALSE, FALSE)
    ELSE IF fails
    THEN Displayed(<<"table", "more_rows", "saving", "write_error">>, cands,
                   NoFile, TRUE, FALSE)
    ELSE Displayed(<<"table", "more_rows", "saving", "saved">>, cands,
                   TargetFile(format, file), FALSE, FALSE)

(***************************************************************************)
(* State                                                                   *)
(***************************************************************************)
VARIABLES
    pc,                 \* where the run is
    readable,           \* input: open() and read() of line 69 succeed
    content,            \* input: the text of the file
    option_number,      \* returned by parse_candidates_data
    option_title,       \* returned by parse_candidates_data
    candidates,         \* returned by parse_candidates_data
    candidate_chunks,   \* history: the chunks of line 92
    chunklog,           \* history: what the loop of line 98 did with each chunk
    processed,          \* history: the entries that the loop of line 156 kept
    ranked_candidates,  \* returned by build_ranking
    output_format,      \* argument of display_ranking
    output_file,        \* argument of display_ranking
    console,            \* what has been printed, in order
    shown,              \* the table lines printed by line 356
    more,               \* the number printed by line 357
    written,            \* the name of the output file written, or NoFile
    write_failed,       \* history: writing the output file raised
    steps               \* history: the steps main has called, in order

vars == <<pc, readable, content, option_number, option_title, candidates,
          candidate_chunks, chunklog, processed, ranked_candidates,
          output_format, output_file, console, shown, more, written,
          write_failed, steps>>

(***************************************************************************)
(* Inputs                                                                  *)
(***************************************************************************)
Sep == <<",", " ">>

D(a, b) == <<a, ".", b>>

\* chunks the primary pattern matches
ChunkK1 == Join(<<<<"1">>, <<"a", " ", "b">>, D("1", "0"), <<"2">>, D("3", "0"),
                  <<"4">>, <<"9", ".", "7", "5">>>>, Sep)

ChunkK2 == Join(<<<<"2">>, <<"a", "'", "b", " ">>, D("1", "5"), <<"3">>,
                  D("3", "0"), <<"1", "4">>, <<"9", ".", "7", "5">>>>, <<",">>)

ChunkK3 == Join(<<<<"0", "3">>, <<"b">>, D("1", "0"), <<"2">>, D("3", "0"),
                  <<"4">>, <<"8", ".", "\n", "5">>>>, Sep)

ChunkK4 == Join(<<<<"x", "4">>, <<"a", "-", "b">>, D("1", "0"), <<"2">>,
                  D("3", "0"), <<"4">>, <<"9", ".", "5", "x">>>>, Sep)

\* chunks only the manual parsing accepts
ChunkF1 == Join(<<<<"5">>, <<"a">>, <<"1", " ", ".", "5">>, <<"2">>, D("3", "0"),
                  <<"4">>, <<"9", ".", "7", "5">>>>, Sep)

ChunkF2 == Join(<<<<"6">>, <<"b">>, <<"1", "0">>, <<"2">>, <<"3", ".", "0", " ">>,
                  <<"4">>, <<"8", ".", "5", "0">>>>, Sep)

ChunkN1 == Join(<<<<"7">>, <<"a">>, <<"-", "1", ".", "0">>, <<"2">>, D("3", "0"),
                  <<"4">>, D("5", "0")>>, Sep)

ChunkN2 == Join(<<<<>>, <<"a">>, D("1", "0"), <<"-", "2">>, D("3", "0"),
                  <<"4">>, D("5", "0")>>, Sep)

\* chunks neither accepts
ChunkB1 == Join(<<<<"8">>, <<"a">>, <<"x">>>>, Sep)

ChunkB2 == Join(<<<<"8">>, <<"a">>, <<"x">>, <<"2">>, D("3", "0"), <<"4">>,
                  D("5", "0")>>, Sep)

ChunkBlank == <<" ">>

\* header chunks, with and without the section marker
ChunkH1 == <<"OPCAO", " ", "7", ":", " ", "T", " ", "SUBAREA:", " ", "X", " ">>
               \o Join(<<<<"9">>, <<"a">>, D("1", "0"), <<"2">>, D("3", "0"),
                         <<"4">>, D("7", "0")>>, Sep)

ChunkH2 == <<"OPCAO", " ", "7", ":", " ", "T", " ">>
               \o Join(<<<<"1", "0">>, <<"b">>, D("1", "0"), <<"2">>, D("3", "0"),
                         <<"4">>, D("7", "5")>>, Sep)

ChunkPool == {ChunkK1, ChunkK2, ChunkK3, ChunkK4, ChunkF1, ChunkF2, ChunkN1,
              ChunkN2, ChunkB1, ChunkB2, ChunkBlank, ChunkH1, ChunkH2}

\* the documents: up to MaxChunks chunks of the pool, '/' between them
Documents ==
    UNION {{Join(cs, <<"/">>) : cs \in [1..n -> ChunkPool]} : n \in 0..MaxChunks}

\* main's input and output names (lines 443 to 445)
MainOutputFile == <<"ranking_40000188">> \o DotXlsx

MainOutputFormat == Xlsx

\* Longest list of records build_ranking is called with directly.
MaxRank == 4

\* Longest ranking display_ranking is called with directly.
MaxRows == 21

\* Most extensions a file name given to display_ranking carries.
MaxExts == 2

Cand(reg, fs) ==
    [registration |-> reg, name |-> <<"a">>, p1_score |-> 1 * Scale,
     p1_correct |-> 2, p2_score |-> 3 * Scale, p2_correct |-> 4,
     final_score |-> fs]

RankPool == {Cand(<<"1">>, 9 * Scale), Cand(<<"2">>, 9 * Scale),
             Cand(<<"3">>, 8 * Scale), Cand(<<"4">>, 7 * Scale)}

RankInputs == UNION {[1..n -> RankPool] : n \in 0..MaxRank}

\* a ranking of n records, best first
Ranking(n) == [k \in 1..n |-> Cand(NatToDigits(k), (MaxRows + 2 - k) * Scale)]

Formats == {Xlsx, Csv, Txt, <<"X", "L", "S", "X">>}

ExtPool == {DotTxt, DotCsv, DotXlsx, <<".", "C", "S", "V">>}

\* the file names: a stem and up to MaxExts extensions, or none at all
FileNames ==
    {NoFile} \cup
    UNION {{<<"a">> \o Join(es, <<>>) : es \in [1..n -> ExtPool]} : n \in 0..MaxExts}

\* Longest text the cleanup of lines 86 to 92 is run on directly.
MaxText == 5

\* the characters of those texts: a digit, the point, both blanks, the delimiter
TextChars == {"1", ".", " ", "\n", "/"}

Texts == UNION {[1..n -> TextChars] : n \in 0..MaxText}

(***************************************************************************)
(* main (lines 442 to 504) and direct calls of the two other functions     *)
(***************************************************************************)
Blank ==
    /\ option_number = Unknown /\ option_title = Unknown
    /\ candidate_chunks = <<>> /\ chunklog = <<>> /\ processed = <<>>
    /\ ranked_candidates = <<>>
    /\ console = <<>> /\ shown = <<>> /\ more = 0 /\ written = NoFile
    /\ write_failed = FALSE
    /\ steps = <<>>

\* main about to run on some file
Init ==
    /\ pc = "main"
    /\ readable \in BOOLEAN
    /\ content \in Documents
    /\ candidates = <<>>
    /\ output_format = MainOutputFormat
    /\ output_file = MainOutputFile
    /\ Blank

\* the branch of line 472 taken whatever was extracted
MainBranch_Always(cands) == "rank"

\* the branch of line 472
MainBranch(cands) == IF cands # <<>> THEN "rank" ELSE "fail"

\* step 1, line 463
Extract ==
    /\ pc = "main"
    /\ \E r \in {ParseCandidatesData(readable, content)} :
           /\ pc' = IF r.raised THEN "crashed" ELSE "extracted"
           /\ option_number' = r.option_number
           /\ option_title' = r.option_title
           /\ candidates' = r.candidates
           /\ candidate_chunks' = r.chunks
           /\ chunklog' = r.log
           /\ processed' = r.processed
           /\ console' = IF readable THEN console
                         ELSE Append(console, "error_processing_file")
    /\ steps' = Append(steps, "extract")
    /\ UNCHANGED <<readable, content, ranked_candidates, output_format,
                   output_file, shown, more, written, write_failed>>

\* step 2, line 476
Rank ==
    /\ pc = "extracted"
    /\ MainBranch(candidates) = "rank"
    /\ ranked_candidates' = BuildRanking(candidates)
    /\ pc' = "ranked"
    /\ steps' = Append(steps, "rank")
    /\ UNCHANGED <<readable, content, option_number, option_title, candidates,
                   candidate_chunks, chunklog, processed, output_format,
                   output_file, console, shown, more, written, write_failed>>

\* step 3, line 488; whether the write fails is the file system's choice
Report ==
    /\ pc = "ranked"
    /\ \E fails \in BOOLEAN :
          \E r \in {DisplayRanking(ranked_candidates, output_format,
                                   output_file, fails)} :
              /\ pc' = IF r.raised THEN "crashed" ELSE "reported"
              /\ console' = console \o r.console
              /\ shown' = r.shown
              /\ more' = r.more
              /\ written' = r.written
              /\ write_failed' = r.failed
    /\ steps' = Append(steps, "report")
    /\ UNCHANGED <<readable, content, option_number, option_title, candidates,
                   candidate_chunks, chunklog, processed, ranked_candidates,
                   output_format, output_file>>

\* lines 499 to 502
Succeed ==
    /\ pc = "reported"
    /\ console' = Append(console, "success_banner")
    /\ pc' = "done"
    /\ UNCHANGED <<readable, content, option_number, option_title, candidates,
                   candidate_chunks, chunklog, processed, ranked_candidates,
                   output_format, output_file, shown, more, written, write_failed,
                   steps>>

\* line 504
Fail ==
    /\ pc = "extracted"
    /\ MainBranch(candidates) = "fail"
    /\ console' = Append(console, "failure_banner")
    /\ pc' = "done"
    /\ UNCHANGED <<readable, content, option_number, option_title, candidates,
                   candidate_chunks, chunklog, processed, ranked_candidates,
                   output_format, output_file, shown, more, written, write_failed,
                   steps>>

Next == Extract \/ Rank \/ Report \/ Succeed \/ Fail

Spec == Init /\ [][Next]_vars

\* build_ranking about to be called with some list of records
InitRank ==
    /\ pc = "call_build_ranking"
    /\ readable = TRUE
    /\ content = <<>>
    /\ candidates \in RankInputs
    /\ output_format = MainOutputFormat
    /\ output_file = MainOutputFile
    /\ Blank

CallBuildRanking ==
    /\ pc = "call_build_ranking"
    /\ ranked_candidates' = BuildRanking(candidates)
    /\ pc' = "build_ranking_returned"
    /\ UNCHANGED <<readable, content, option_number, option_title, candidates,
                   candidate_chunks, chunklog, processed, output_format,
                   output_file, console, shown, more, written, write_failed,
                   steps>>

NextRank == CallBuildRanking

SpecRank == InitRank /\ [][NextRank]_vars

\* display_ranking about to be called with some ranking, format and file name
InitDisplay ==
    /\ pc = "call_display_ranking"
    /\ readable = TRUE
    /\ content = <<>>
    /\ option_number = Unknown /\ option_title = Unknown
    /\ candidate_chunks = <<>> /\ chunklog = <<>> /\ processed = <<>>
    /\ \E n \in 0..MaxRows : candidates = Ranking(n) /\ ranked_candidates = Ranking(n)
    /\ output_format \in Formats
    /\ output_file \in FileNames
    /\ console = <<>> /\ shown = <<>> /\ more = 0 /\ written = NoFile
    /\ write_failed = FALSE
    /\ steps = <<>>

CallDisplayRanking ==
    /\ pc = "call_display_ranking"
    /\ \E fails \in BOOLEAN :
          \E r \in {DisplayRanking(ranked_candidates, output_format,
                                   output_file, fails)} :
              /\ pc' = IF r.raised THEN "crashed" ELSE "display_ranking_returned"
              /\ console' = console \o r.console
              /\ shown' = r.shown
              /\ more' = r.more
              /\ written' = r.written
              /\ write_failed' = r.failed
    /\ UNCHANGED <<readable, content, option_number, option_title, candidates,
                   candidate_chunks, chunklog, processed, ranked_candidates,
                   output_format, output_file, steps>>

NextDisplay == CallDisplayRanking

SpecDisplay == InitDisplay /\ [][NextDisplay]_vars

\* lines 86 to 92 about to run on some text
InitClean ==
    /\ pc = "call_clean"
    /\ readable = TRUE
    /\ content \in Texts
    /\ candidates = <<>>
    /\ output_format = MainOutputFormat
    /\ output_file = MainOutputFile
    /\ Blank

\* lines 86 to 92: the text is cleaned, then split on '/'
CleanAndSplit ==
    /\ pc = "call_clean"
    /\ candidate_chunks' = Split(CleanContent(content), "/")
    /\ pc' = "split"
    /\ UNCHANGED <<readable, content, option_number, option_title, candidates,
                   chunklog, processed, ranked_candidates, output_format,
                   output_file, console, shown, more, written, write_failed,
                   steps>>

NextClean == CleanAndSplit

SpecClean == InitClean /\ [][NextClean]_vars

(***************************************************************************)
(* Properties                                                              *)
(***************************************************************************)
WithScore(seq, v) == SelectSeq(seq, LAMBDA c : c.final_score = v)

ScoresOf(seq) == {seq[i].final_score : i \in 1..Len(seq)}

\* C1: build_ranking returns the records in descending order of final_score,
\* and the records of any one final_score in the order the input had them.
C1_RankingStableDescending ==
    pc = "build_ranking_returned" =>
        /\ Len(ranked_candidates) = Len(candidates)
        /\ \A i \in 1..(Len(ranked_candidates) - 1) :
               ranked_candidates[i].final_score
                   >= ranked_candidates[i + 1].final_score
        /\ \A v \in ScoresOf(candidates) \cup ScoresOf(ranked_candidates) :
               WithScore(ranked_candidates, v) = WithScore(candidates, v)

\* build_ranking has reordered a list in which two different records tie
C1_Witness ==
    /\ pc = "build_ranking_returned"
    /\ ranked_candidates # candidates
    /\ \E i, j \in 1..Len(candidates) :
           /\ i < j
           /\ candidates[i] # candidates[j]
           /\ candidates[i].final_score = candidates[j].final_score

\* C2: every record parse_candidates_data returns has a non-empty
\* registration, non-negative scores and non-negative counts.
C2_RecordsWellFormed ==
    \A k \in 1..Len(candidates) :
        /\ candidates[k].registration # <<>>
        /\ candidates[k].p1_score >= 0
        /\ candidates[k].p2_score >= 0
        /\ candidates[k].final_score >= 0
        /\ candidates[k].p1_correct \in Nat
        /\ candidates[k].p2_correct \in Nat

RemoveAt(seq, i) == SubSeq(seq, 1, i - 1) \o SubSeq(seq, i + 1, Len(seq))

HasHeaderWord(chunk) == \E i \in 1..Len(chunk) : chunk[i] = "OPCAO"

\* C3 as first stated: the records returned are those that would be returned
\* had a chunk neither parser accepts not been in the list of chunks.
C3_DroppedChunkAsIfAbsent ==
    pc # "main" =>
        \A i \in 1..Len(chunklog) :
            chunklog[i].kind = "dropped" =>
                candidates = ExtractRecords(RemoveAt(candidate_chunks, i))

\* C3: a chunk neither parser accepts adds no record and does not stop the
\* loop; the records returned are those that would be returned without it
\* whenever candidate data had started before it or no later chunk holds the
\* header word.
C3_DroppedChunkContributesNothing ==
    pc # "main" =>
        \A i \in 1..Len(chunklog) :
            (/\ chunklog[i].kind = "dropped"
             /\ \/ chunklog[i].startedBefore
                \/ \A j \in (i + 1)..Len(candidate_chunks) :
                       ~HasHeaderWord(candidate_chunks[j]))
            => /\ Len(chunklog) = Len(candidate_chunks)
               /\ candidates = ExtractRecords(RemoveAt(candidate_chunks, i))

\* a dropped chunk is followed by a chunk that gave a record
C3_Witness ==
    /\ pc # "main"
    /\ \E i, j \in 1..Len(chunklog) :
           /\ i < j
           /\ chunklog[i].kind = "dropped"
           /\ chunklog[j].kind \in {"primary", "fallback"}
    /\ candidates # <<>>

\* the number of entries appended by the first i chunks
EntriesUpTo(i) ==
    Cardinality({j \in 1..i : chunklog[j].kind \in {"primary", "fallback"}})

\* the records that came of chunk i
RecordsOfChunk(i) ==
    SelectSeq([k \in 1..Len(candidates) |-> [at |-> processed[k],
                                             candidate |-> candidates[k]]],
              LAMBDA r : r.at = EntriesUpTo(i))

\* the seven groups coerced to the types of the record
Coerced(groups) ==
    [registration |-> Strip(groups[1]),
     name |-> Strip(groups[2]),
     p1_score |-> ParseFloat(groups[3]).val,
     p1_correct |-> ParseInt(groups[4]).val,
     p2_score |-> ParseFloat(groups[5]).val,
     p2_correct |-> ParseInt(groups[6]).val,
     final_score |-> ParseFloat(groups[7]).val]

\* chunk i got as far as the pattern of line 117
ReachedPattern(i) == chunklog[i].kind \notin {"empty", "skipped"}

\* C4: a chunk the primary pattern matches (at line 118, so a chunk that was
\* not skipped before) gives exactly one record, whose fields are the matched
\* groups coerced to their types.
C4_PrimaryYieldsCoercedGroups ==
    pc # "main" =>
        \A i \in 1..Len(chunklog) :
            (ReachedPattern(i) /\ PatternSearch(chunklog[i].chunk) # <<>>) =>
                /\ chunklog[i].kind = "primary"
                /\ Len(RecordsOfChunk(i)) = 1
                /\ RecordsOfChunk(i)[1].candidate
                       = Coerced(PatternSearch(chunklog[i].chunk))

\* a chunk was matched by the primary pattern, with two different counts
C4_Witness ==
    /\ pc # "main"
    /\ \E i \in 1..Len(chunklog) :
           /\ chunklog[i].kind = "primary"
           /\ chunklog[i].entry[4] # chunklog[i].entry[6]
           /\ Len(RecordsOfChunk(i)) = 1

\* C5: the record of a chunk only the manual parsing accepts is the record the
\* primary pattern gives on the same seven fields written out in order.
C5_FallbackSameAsPrimary ==
    pc # "main" =>
        \A i \in 1..Len(chunklog) :
            chunklog[i].kind = "fallback" =>
                /\ PatternSearch(Join(chunklog[i].entry, Sep)) # <<>>
                /\ Len(RecordsOfChunk(i)) = 1
                /\ RecordsOfChunk(i)[1].candidate
                       = Coerced(PatternSearch(Join(chunklog[i].entry, Sep)))

\* C6: when the input file cannot be read, parse_candidates_data raises
\* nothing and returns "Unknown", "Unknown" and no records.
C6_UnreadableFileGivesUnknown ==
    (pc # "main" /\ ~readable) =>
        /\ pc # "crashed"
        /\ option_number = Unknown
        /\ option_title = Unknown
        /\ candidates = <<>>

\* a run on an unreadable file has ended
C6_Witness == pc = "done" /\ ~readable /\ steps = <<"extract">>

KnownExtensions == {DotTxt, DotCsv, DotXlsx}

\* C7: the file is written under a name that ends with the extension of the
\* format; a name that ended with it is kept, and of a name that ended with
\* another known extension only that ending is rewritten.
C7_OnlyTrailingExtensionRewritten ==
    (pc = "display_ranking_returned" /\ written # NoFile) =>
        /\ EndsWith(Lower(written), ExtensionOf(output_format))
        /\ EndsWith(Lower(output_file), ExtensionOf(output_format))
               => written = output_file
        /\ \A old \in KnownExtensions \ {ExtensionOf(output_format)} :
               EndsWith(output_file, old) =>
                   written = SubSeq(output_file, 1, Len(output_file) - Len(old))
                                 \o ExtensionOf(output_format)

\* the number of data rows among the lines printed
RowsShown == Cardinality({i \in 1..Len(shown) : shown[i].kind = "row"})

\* C8: the preview shows the first min(n, 20) rows of a ranking of n records,
\* and the rows shown and the rows reported omitted add up to n.
C8_PreviewAccountsForAllRows ==
    (pc = "display_ranking_returned" /\ ranked_candidates # <<>>) =>
        /\ RowsShown = IF Len(ranked_candidates) < PreviewRows
                       THEN Len(ranked_candidates) ELSE PreviewRows
        /\ RowsShown + more = Len(ranked_candidates)

PositionsOf(event) == {i \in 1..Len(console) : console[i] = event}

\* C9: a failure to write the output file does not leave display_ranking: the
\* table was printed before the write was tried, the error is reported, and
\* main goes on to its final banner.
C9_WriteFailureContained ==
    write_failed =>
        /\ pc \in {"reported", "done"}
        /\ written = NoFile
        /\ PositionsOf("write_error") # {}
        /\ \A t \in PositionsOf("table") : \A w \in PositionsOf("saving") : t < w
        /\ PositionsOf("table") # {}
        /\ pc = "done" => console[Len(console)] = "success_banner"

\* a run in which the write failed has ended
C9_Witness == write_failed /\ pc = "done"

MainSteps == <<"extract", "rank", "report">>

\* C10: main calls extraction, ranking and reporting in this order, each at
\* most once; ranking and reporting only when a record was extracted; with no
\* record no file is written and the run ends with the failure banner.
C10_StepsInOrder ==
    /\ Len(steps) <= 3
    /\ steps = SubSeq(MainSteps, 1, Len(steps))
    /\ Len(steps) >= 2 => candidates # <<>>
    /\ (pc = "done" /\ candidates = <<>>) =>
           /\ steps = <<"extract">>
           /\ written = NoFile
           /\ console[Len(console)] = "failure_banner"
    /\ (pc = "done" /\ candidates # <<>>) =>
           /\ steps = MainSteps
           /\ console[Len(console)] = "success_banner"

\* a run on a readable file in which nothing was extracted has ended
C10_Witness ==
    /\ pc = "done"
    /\ readable
    /\ chunklog # <<>>
    /\ candidates = <<>>

\* C11: the text that is split on '/' holds no newline and no two spaces in a
\* row, whatever newlines and runs of spaces the document had: no chunk of
\* the split holds a newline or two adjacent spaces.
C11_SplitTextSingleSpaced ==
    pc = "split" =>
        \A k \in 1..Len(candidate_chunks) :
            /\ \A i \in 1..Len(candidate_chunks[k]) :
                   candidate_chunks[k][i] # "\n"
            /\ \A i \in 1..(Len(candidate_chunks[k]) - 1) :
                   ~(candidate_chunks[k][i] = " " /\ candidate_chunks[k][i + 1] = " ")

HasMarker(chunk) == \E i \in 1..Len(chunk) : chunk[i] = "SUBAREA:"

\* the text of a chunk that follows the section marker
AfterMarker(chunk) ==
    SubSeq(chunk, Min({i \in 1..Len(chunk) : chunk[i] = "SUBAREA:"}) + 1,
           Len(chunk))

\* the chunk at position i is parsed as text: it is not skipped, and what it
\* adds to the entries is what lines 116 to 147 make of that text
ParsedAs(i, text) ==
    /\ chunklog[i].kind \in {"primary", "fallback", "dropped"}
    /\ chunklog[i].chunk = text
    /\ chunklog[i].entry = ParseChunk(text).entry

\* the header chunk at position i, candidate data not having started
HeaderChunkAt(i) ==
    /\ ~chunklog[i].startedBefore
    /\ HasHeaderWord(Strip(candidate_chunks[i]))

\* C12: while candidate data has not started, a chunk holding the header word
\* is parsed as the text after the section marker, and what it yields is the
\* first entry; without the marker it is skipped, yields nothing and leaves
\* candidate data not started.  Once candidate data has started, every
\* non-empty chunk is parsed whole, header word or not.
C12_HeaderChunkTrimmedOrSkipped ==
    pc # "main" =>
        /\ Len(chunklog) = Len(candidate_chunks)
        /\ \A i \in 1..Len(chunklog) :
               /\ (HeaderChunkAt(i) /\ HasMarker(candidate_chunks[i])) =>
                      /\ ParsedAs(i, Strip(AfterMarker(Strip(candidate_chunks[i]))))
                      /\ \A k \in 1..(i - 1) : chunklog[k].entry = <<>>
               /\ (HeaderChunkAt(i) /\ ~HasMarker(candidate_chunks[i])) =>
                      /\ chunklog[i].kind = "skipped"
                      /\ chunklog[i].entry = <<>>
                      /\ i < Len(chunklog) => ~chunklog[i + 1].startedBefore
               /\ (chunklog[i].startedBefore
                     /\ Strip(candidate_chunks[i]) # <<>>) =>
                      ParsedAs(i, Strip(candidate_chunks[i]))

\* a header chunk was trimmed and gave the first record, and a later chunk
\* holding the header word was parsed whole and gave a record too
C12_Witness ==
    /\ pc # "main"
    /\ \E i \in 1..Len(chunklog) : \E j \in (i + 1)..Len(chunklog) :
           /\ HeaderChunkAt(i) /\ HasMarker(candidate_chunks[i])
           /\ chunklog[i].kind = "primary"
           /\ chunklog[j].startedBefore
           /\ HasHeaderWord(candidate_chunks[j])
           /\ chunklog[j].kind = "primary"

====
